---- MODULE Spec2Model ----
(***************************************************************************)
(* Model of the numeric-enum-macro crate (src/src/lib.rs).                 *)
(*                                                                         *)
(* The crate consists of two declarative macros, numeric_enum! and         *)
(* numeric_enum_ident!.  An invocation is a token stream; the macro        *)
(* matcher binds the member list, the transcriber emits an enum and two    *)
(* conversions, rustc then accepts or rejects the emitted items, and the   *)
(* compiled conversions are called by any number of callers.               *)
(***************************************************************************)
EXTENDS Integers, Sequences, FiniteSets, TLC

\* ------------------------------------------------------------------ bounds
MaxMembers == 2     \* longest member list written in an invocation
NumCallers == 2     \* callers of the compiled conversions

Callers == 1..NumCallers

\* ------------------------------------------------------------------ tokens
Ident(s) == [k |-> "ident", s |-> s, n |-> 0]
Lit(n)   == [k |-> "lit",   s |-> "", n |-> n]
Punct(s) == [k |-> "punct", s |-> s, n |-> 0]

Comma == Punct(",")
Eq    == Punct("=")
Minus == Punct("-")

\* The two macros of the crate.
Macros == {"numeric_enum", "numeric_enum_ident"}

\* Representations used by the crate's tests and documentation.
Reprs == {"u8", "i16", "u32"}

\* Member names used by the crate's tests.
Names == {"Zero", "Lol"}

\* Constants in scope of the invocations (tests and crate documentation).
DocConsts ==
  [KEK |-> [ty |-> "u32", value |-> 0],
   WOW |-> [ty |-> "u32", value |-> 1]]

TestConsts ==
  [ZERO |-> [ty |-> "u8", value |-> 0],
   LOL  |-> [ty |-> "u8", value |-> 1]]

ConstTable == TestConsts @@ DocConsts

\* Value expressions an invocation may write after `=`.
ValueExprs ==
  {<<Lit(0)>>, <<Lit(1)>>, <<Minus, Lit(1)>>, <<Lit(256)>>,
   <<Ident("ZERO")>>, <<Ident("LOL")>>, <<Ident("KEK")>>, <<Ident("WOW")>>}

\* What may follow the last member: nothing, one comma, two commas.
Trailers == {<<>>, <<Comma>>, <<Comma, Comma>>}

\* Numbers the callers pass to try_from (restricted to the repr's range).
SampleInputs == {-1, 0, 1, 2}

\* ------------------------------------------------- numeric representation
Signed(repr) == repr = "i16"

InRange(v, repr) ==
  CASE repr = "u8"  -> v >= 0 /\ v <= 255
    [] repr = "i16" -> v >= -32768 /\ v <= 32767
    [] repr = "u32" -> v >= 0      \* every model value is below 2^32

\* Variant of AsRepr: the value reinterpreted as an unsigned bit pattern.
AsReprWrapped(v, repr) ==
  CASE repr = "u8"  -> v % 256
    [] repr = "i16" -> v % 65536
    [] repr = "u32" -> v

\* A constant evaluated at the representation type: the code has no cast,
\* the value is used at type $repr as written.
AsRepr(v, repr) == v

Inputs(repr) == {x \in SampleInputs : InRange(x, repr)}

\* ------------------------------------------------------------ invocations
MemberToks(p) == <<Ident(p[1]), Eq>> \o p[2]

RECURSIVE JoinMembers(_)
JoinMembers(ps) ==
  IF ps = <<>> THEN <<>>
  ELSE IF Len(ps) = 1 THEN MemberToks(ps[1])
  ELSE MemberToks(ps[1]) \o <<Comma>> \o JoinMembers(Tail(ps))

MemberLists == UNION {[1..n -> Names \X ValueExprs] : n \in 0..MaxMembers}

Bodies == {JoinMembers(ps) \o t : ps \in MemberLists, t \in Trailers}

\* ---------------------------------------------------------------- matcher
NoParse == [len |-> 0, constant |-> Lit(0)]

\* $constant:expr (numeric_enum) or $constant:ident (numeric_enum_ident)
\* starting at token j.
ConstantAt(macro, toks, j) ==
  IF j > Len(toks) THEN NoParse
  ELSE IF macro = "numeric_enum_ident"
       THEN IF toks[j].k = "ident" THEN [len |-> 1, constant |-> toks[j]]
            ELSE NoParse
  ELSE IF toks[j].k = "lit" THEN [len |-> 1, constant |-> toks[j]]
  ELSE IF toks[j] = Minus /\ j + 1 <= Len(toks) /\ toks[j + 1].k = "lit"
       THEN [len |-> 2, constant |-> Lit(0 - toks[j + 1].n)]
  ELSE IF toks[j].k = "ident" THEN [len |-> 1, constant |-> toks[j]]
  ELSE NoParse

\* One repetition `$enum:ident = $constant` starting at token j.
MemberAt(macro, toks, j) ==
  IF j + 1 <= Len(toks) /\ toks[j].k = "ident" /\ toks[j + 1] = Eq
  THEN LET c == ConstantAt(macro, toks, j + 2)
       IN  IF c.len = 0 THEN [len |-> 0, member |-> [enum |-> "", constant |-> Lit(0)]]
           ELSE [len |-> 2 + c.len,
                 member |-> [enum |-> toks[j].s, constant |-> c.constant]]
  ELSE [len |-> 0, member |-> [enum |-> "", constant |-> Lit(0)]]

NoMatch == [ok |-> FALSE, members |-> <<>>]

\* Variant of MatchRep without the optional trailing `$(,)?`.
RECURSIVE MatchRepNoTrailing(_, _, _, _)
MatchRepNoTrailing(macro, toks, i, acc) ==
  IF i > Len(toks) THEN [ok |-> TRUE, members |-> acc]
  ELSE IF acc = <<>>
       THEN LET m == MemberAt(macro, toks, i)
            IN  IF m.len = 0 THEN NoMatch
                ELSE MatchRepNoTrailing(macro, toks, i + m.len, Append(acc, m.member))
  ELSE IF toks[i] # Comma THEN NoMatch
  ELSE LET m == MemberAt(macro, toks, i + 1)
       IN  IF m.len = 0 THEN NoMatch
           ELSE MatchRepNoTrailing(macro, toks, i + 1 + m.len, Append(acc, m.member))

\* `$($enum:ident = $constant:...),* $(,)?` from token i on, acc the
\* repetitions bound so far.
RECURSIVE MatchRep(_, _, _, _)
MatchRep(macro, toks, i, acc) ==
  IF i > Len(toks) THEN [ok |-> TRUE, members |-> acc]
  ELSE IF acc = <<>>
       THEN IF toks[i] = Comma
            THEN IF i = Len(toks) THEN [ok |-> TRUE, members |-> acc] ELSE NoMatch
            ELSE LET m == MemberAt(macro, toks, i)
                 IN  IF m.len = 0 THEN NoMatch
                     ELSE MatchRep(macro, toks, i + m.len, Append(acc, m.member))
  ELSE IF toks[i] # Comma THEN NoMatch
  ELSE IF i = Len(toks) THEN [ok |-> TRUE, members |-> acc]
  ELSE LET m == MemberAt(macro, toks, i + 1)
       IN  IF m.len = 0 THEN NoMatch
           ELSE MatchRep(macro, toks, i + 1 + m.len, Append(acc, m.member))

MatchMembers(macro, toks) == MatchRep(macro, toks, 1, <<>>)

\* ------------------------------------------------- rustc on emitted items
\* The constant can stand both as a discriminant and as a match pattern.
Resolves(macro, constant, repr) ==
  IF macro = "numeric_enum"
  THEN constant.k = "lit"
  ELSE /\ constant.s \in DOMAIN ConstTable
       /\ ConstTable[constant.s].ty = repr

\* The number a constant expression denotes as written.
RawValue(constant) ==
  IF constant.k = "lit" THEN constant.n ELSE ConstTable[constant.s].value

\* Variant of ValueOf: a named constant resolved to a neighbouring value.
ValueOfIdentShifted(constant, repr) ==
  IF constant.k = "lit" THEN AsRepr(constant.n, repr)
  ELSE AsRepr(ConstTable[constant.s].value + 1, repr)

\* The number a constant denotes in the emitted code, at type $repr.
ValueOf(constant, repr) == AsRepr(RawValue(constant), repr)

\* Variant of NonEmptyEnum: a zero-variant enum with a repr goes through.
NonEmptyEnumUnchecked(ms) == TRUE

NonEmptyEnum(ms) == Len(ms) >= 1

DistinctNames(ms) ==
  \A i, j \in 1..Len(ms) : ms[i].enum = ms[j].enum => i = j

ConstantsTypeCheck(macro, repr, ms) ==
  \A i \in 1..Len(ms) :
     /\ Resolves(macro, ms[i].constant, repr)
     /\ InRange(RawValue(ms[i].constant), repr)

\* Variant of DistinctDiscriminants: repeated discriminants go through.
DistinctDiscriminantsUnchecked(repr, ms) == TRUE

DistinctDiscriminants(repr, ms) ==
  \A i, j \in 1..Len(ms) :
     ValueOf(ms[i].constant, repr) = ValueOf(ms[j].constant, repr) => i = j

RustcAccepts(macro, repr, ms) ==
  /\ NonEmptyEnum(ms)
  /\ DistinctNames(ms)
  /\ ConstantsTypeCheck(macro, repr, ms)
  /\ DistinctDiscriminants(repr, ms)

\* ------------------------------------------------------------ conversions
Ok(m)    == [tag |-> "Ok",   m |-> m,  n |-> 0]
Err(n)   == [tag |-> "Err",  m |-> "", n |-> n]
Num(n)   == [tag |-> "Num",  m |-> "", n |-> n]
NoResult == [tag |-> "None", m |-> "", n |-> 0]

\* try_from run on its own: the arms in declaration order, then `other`.
RECURSIVE try_from(_, _, _, _)
try_from(repr, ms, value, arm) ==
  IF arm > Len(ms) THEN Err(value)
  ELSE IF ValueOf(ms[arm].constant, repr) = value THEN Ok(ms[arm].enum)
  ELSE try_from(repr, ms, value, arm + 1)

\* from run on its own: the arms in declaration order.
RECURSIVE from(_, _, _, _)
from(repr, ms, member, arm) ==
  IF arm > Len(ms) THEN NoResult
  ELSE IF ms[arm].enum = member THEN Num(ValueOf(ms[arm].constant, repr))
  ELSE from(repr, ms, member, arm + 1)

\* ------------------------------------------------------------------ state
VARIABLES macro, repr, body, phase, members, call

vars == <<macro, repr, body, phase, members, call>>

Idle == [pc |-> "idle", op |-> "none", value |-> 0, member |-> "",
         arm |-> 0, result |-> NoResult]

Init ==
  /\ macro \in Macros
  /\ repr \in Reprs
  /\ body \in Bodies
  /\ phase = "source"
  /\ members = <<>>
  /\ call = [c \in Callers |-> Idle]

\* Macro expansion: the matcher binds the member list or no rule matches.
Expand ==
  /\ phase = "source"
  /\ LET r == MatchMembers(macro, body)
     IN  /\ phase' = IF r.ok THEN "expanded" ELSE "no_match"
         /\ members' = r.members
  /\ UNCHANGED <<macro, repr, body, call>>

\* rustc checks the emitted enum and impls.
Compile ==
  /\ phase = "expanded"
  /\ phase' = IF RustcAccepts(macro, repr, members) THEN "compiled" ELSE "rejected"
  /\ UNCHANGED <<macro, repr, body, members, call>>

\* Variant of Scrutinee: the argument kept in one slot shared by all calls.
ScrutineeShared(c) == call[1].value

\* The scrutinee of a running conversion: its own argument.
Scrutinee(c) == call[c].value

ScrutineeMember(c) == call[c].member

CallTryFrom(c, x) ==
  /\ phase = "compiled"
  /\ call[c].pc = "idle"
  /\ call' = [call EXCEPT ![c] = [pc |-> "running", op |-> "try_from", value |-> x,
                                  member |-> "", arm |-> 1, result |-> NoResult]]
  /\ UNCHANGED <<macro, repr, body, phase, members>>

CallFrom(c, m) ==
  /\ phase = "compiled"
  /\ call[c].pc = "idle"
  /\ call' = [call EXCEPT ![c] = [pc |-> "running", op |-> "from", value |-> 0,
                                  member |-> m, arm |-> 1, result |-> NoResult]]
  /\ UNCHANGED <<macro, repr, body, phase, members>>

\* Variant of TryFromStep: the fallback arm yields a fixed error code.
TryFromStepGenericErr(c) ==
  /\ call[c].pc = "running"
  /\ call[c].op = "try_from"
  /\ LET a == call[c].arm
     IN  call' = [call EXCEPT ![c] =
           IF a > Len(members)
           THEN [@ EXCEPT !.pc = "done", !.result = Err(0)]
           ELSE IF ValueOf(members[a].constant, repr) = Scrutinee(c)
           THEN [@ EXCEPT !.pc = "done", !.result = Ok(members[a].enum)]
           ELSE [@ EXCEPT !.arm = a + 1]]
  /\ UNCHANGED <<macro, repr, body, phase, members>>

\* Variant of TryFromStep: every arm yields the first member.
TryFromStepFirstMember(c) ==
  /\ call[c].pc = "running"
  /\ call[c].op = "try_from"
  /\ LET a == call[c].arm
     IN  call' = [call EXCEPT ![c] =
           IF a > Len(members)
           THEN [@ EXCEPT !.pc = "done", !.result = Err(Scrutinee(c))]
           ELSE IF ValueOf(members[a].constant, repr) = Scrutinee(c)
           THEN [@ EXCEPT !.pc = "done", !.result = Ok(members[1].enum)]
           ELSE [@ EXCEPT !.arm = a + 1]]
  /\ UNCHANGED <<macro, repr, body, phase, members>>

\* One arm of try_from's match.
TryFromStep(c) ==
  /\ call[c].pc = "running"
  /\ call[c].op = "try_from"
  /\ LET a == call[c].arm
     IN  call' = [call EXCEPT ![c] =
           IF a > Len(members)
           THEN [@ EXCEPT !.pc = "done", !.result = Err(Scrutinee(c))]
           ELSE IF ValueOf(members[a].constant, repr) = Scrutinee(c)
           THEN [@ EXCEPT !.pc = "done", !.result = Ok(members[a].enum)]
           ELSE [@ EXCEPT !.arm = a + 1]]
  /\ UNCHANGED <<macro, repr, body, phase, members>>

\* Variant of FromStep: every arm yields the first constant.
FromStepFirstArm(c) ==
  /\ call[c].pc = "running"
  /\ call[c].op = "from"
  /\ LET a == call[c].arm
     IN  call' = [call EXCEPT ![c] =
           IF a > Len(members)
           THEN [@ EXCEPT !.pc = "done", !.result = NoResult]
           ELSE IF members[a].enum = ScrutineeMember(c)
           THEN [@ EXCEPT !.pc = "done",
                          !.result = Num(ValueOf(members[1].constant, repr))]
           ELSE [@ EXCEPT !.arm = a + 1]]
  /\ UNCHANGED <<macro, repr, body, phase, members>>

\* Variant of FromStep: the last arm is missing.
FromStepShort(c) ==
  /\ call[c].pc = "running"
  /\ call[c].op = "from"
  /\ LET a == call[c].arm
     IN  call' = [call EXCEPT ![c] =
           IF a >= Len(members)
           THEN [@ EXCEPT !.pc = "done", !.result = NoResult]
           ELSE IF members[a].enum = ScrutineeMember(c)
           THEN [@ EXCEPT !.pc = "done",
                          !.result = Num(ValueOf(members[a].constant, repr))]
           ELSE [@ EXCEPT !.arm = a + 1]]
  /\ UNCHANGED <<macro, repr, body, phase, members>>

\* One arm of from's match.
FromStep(c) ==
  /\ call[c].pc = "running"
  /\ call[c].op = "from"
  /\ LET a == call[c].arm
     IN  call' = [call EXCEPT ![c] =
           IF a > Len(members)
           THEN [@ EXCEPT !.pc = "done", !.result = NoResult]
           ELSE IF members[a].enum = ScrutineeMember(c)
           THEN [@ EXCEPT !.pc = "done",
                          !.result = Num(ValueOf(members[a].constant, repr))]
           ELSE [@ EXCEPT !.arm = a + 1]]
  /\ UNCHANGED <<macro, repr, body, phase, members>>

\* The caller consumes the result and may call again.
Return(c) ==
  /\ call[c].pc = "done"
  /\ call' = [call EXCEPT ![c] = Idle]
  /\ UNCHANGED <<macro, repr, body, phase, members>>

MemberNames == {members[i].enum : i \in 1..Len(members)}

Next ==
  \/ Expand
  \/ Compile
  \/ \E c \in Callers, x \in Inputs(repr) : CallTryFrom(c, x)
  \/ \E c \in Callers, m \in MemberNames : CallFrom(c, m)
  \/ \E c \in Callers : TryFromStep(c)
  \/ \E c \in Callers : FromStep(c)
  \/ \E c \in Callers : Return(c)

Spec == Init /\ [][Next]_vars

TypeOK ==
  /\ phase \in {"source", "expanded", "no_match", "rejected", "compiled"}
  /\ \A c \in Callers : call[c].pc \in {"idle", "running", "done"}
\* ------------------------------------------------------------ properties
Done(c, op) == call[c].pc = "done" /\ call[c].op = op

Running(c, op) == call[c].pc = "running" /\ call[c].op = op

Matched == phase \in {"expanded", "rejected", "compiled"}

Checked == phase \in {"rejected", "compiled"}

DeclaredValues == {RawValue(members[i].constant) : i \in 1..Len(members)}

SharedValue ==
  \E i, j \in 1..Len(members) :
     i # j /\ RawValue(members[i].constant) = RawValue(members[j].constant)

FirstWith(x) ==
  LET i == CHOOSE i \in 1..Len(members) :
             /\ RawValue(members[i].constant) = x
             /\ \A j \in 1..(i - 1) : RawValue(members[j].constant) # x
  IN  members[i].enum

\* The declaration is well-formed apart from the uniqueness of its values.
OtherwiseValid ==
  /\ Len(members) >= 1
  /\ \A i, j \in 1..Len(members) : members[i].enum = members[j].enum => i = j
  /\ \A i \in 1..Len(members) :
        /\ Resolves(macro, members[i].constant, repr)
        /\ InRange(RawValue(members[i].constant), repr)

\* C1: round trip.  Whenever one call has converted member m to its number
\* and another call has converted that number back, the second call
\* returned Ok(m).
C1_RoundTrip ==
  \A c, d \in Callers :
     ( /\ Done(c, "from") /\ call[c].result.tag = "Num"
       /\ Done(d, "try_from") /\ call[d].value = call[c].result.n )
     => call[d].result = Ok(call[c].member)

C1_Witness ==
  /\ Len(members) = 2
  /\ \E c, d \in Callers :
        /\ Done(c, "from") /\ call[c].member = members[2].enum
        /\ call[c].result.tag = "Num"
        /\ Done(d, "try_from") /\ call[d].value = call[c].result.n

\* C2: rejection fidelity.  A finished try_from whose input is not the value
\* of any declared member returned Err of exactly that input.
C2_RejectionFidelity ==
  \A d \in Callers :
     (Done(d, "try_from") /\ call[d].value \notin DeclaredValues)
     => call[d].result = Err(call[d].value)

C2_Witness ==
  /\ Len(members) = 2
  /\ \E d \in Callers :
        /\ Done(d, "try_from") /\ call[d].value = 2
        /\ call[d].value \notin DeclaredValues

\* C3: the enum-to-number conversion is total and returns the assigned
\* value: a finished call for member m = v returned v, no call runs past the
\* last arm, and every member of a compiled enum has a result.
C3_FromTotal ==
  /\ \A c \in Callers :
        Done(c, "from") =>
          \E i \in 1..Len(members) :
             /\ members[i].enum = call[c].member
             /\ call[c].result = Num(RawValue(members[i].constant))
  /\ \A c \in Callers : Running(c, "from") => call[c].arm <= Len(members)
  /\ phase = "compiled" =>
        \A m \in MemberNames : from(repr, members, m, 1).tag = "Num"

C3_Witness ==
  /\ Len(members) = 2
  /\ \E c \in Callers :
        /\ Done(c, "from") /\ call[c].member = members[2].enum
        /\ call[c].result = Num(RawValue(members[2].constant))

\* C4 as stated: member values need not be unique; a declaration in which
\* members share a value (and which is well-formed otherwise) yields an enum
\* whose try_from returns the first-declared member with the value.
C4_Original ==
  (Checked /\ SharedValue /\ OtherwiseValid) =>
     /\ phase = "compiled"
     /\ \A d \in Callers :
           (Done(d, "try_from") /\ call[d].value \in DeclaredValues)
           => call[d].result = Ok(FirstWith(call[d].value))

\* C4 amended: a declaration in which two members share a value is rejected
\* when the emitted enum is compiled; in every compiled enum the values are
\* pairwise distinct and try_from of a declared value returns the one member
\* with that value, which is also the first declared with it.
C4_FirstMatch ==
  /\ (Checked /\ SharedValue) => phase = "rejected"
  /\ \A d \in Callers :
        (Done(d, "try_from") /\ call[d].value \in DeclaredValues)
        => call[d].result = Ok(FirstWith(call[d].value))

C4_Witness ==
  /\ phase = "rejected"
  /\ SharedValue
  /\ OtherwiseValid

\* The numeric_enum! body whose members are bound to the literal values of
\* the constants named in a numeric_enum_ident! body.
RECURSIVE LiteralTwin(_, _)
LiteralTwin(toks, i) ==
  IF i > Len(toks) THEN <<>>
  ELSE IF /\ i > 1 /\ toks[i - 1] = Eq /\ toks[i].k = "ident"
          /\ toks[i].s \in DOMAIN ConstTable
       THEN LET v == ConstTable[toks[i].s].value
            IN  (IF v < 0 THEN <<Minus, Lit(0 - v)>> ELSE <<Lit(v)>>)
                \o LiteralTwin(toks, i + 1)
  ELSE <<toks[i]>> \o LiteralTwin(toks, i + 1)

\* C5: variant equivalence.  When a numeric_enum_ident! declaration has
\* compiled, the numeric_enum! declaration with the same names and the
\* literal values of the constants compiles too, has the same member names
\* in the same order, and both conversions agree on every input and on the
\* result of every finished call.
C5_VariantEquivalence ==
  (macro = "numeric_enum_ident" /\ phase = "compiled") =>
     LET t == MatchMembers("numeric_enum", LiteralTwin(body, 1))
     IN  /\ t.ok
         /\ RustcAccepts("numeric_enum", repr, t.members)
         /\ Len(t.members) = Len(members)
         /\ \A i \in 1..Len(members) : t.members[i].enum = members[i].enum
         /\ \A x \in Inputs(repr) :
               try_from(repr, members, x, 1) = try_from(repr, t.members, x, 1)
         /\ \A m \in MemberNames :
               from(repr, members, m, 1) = from(repr, t.members, m, 1)
         /\ \A c \in Callers :
               /\ Done(c, "try_from") =>
                    call[c].result = try_from(repr, t.members, call[c].value, 1)
               /\ Done(c, "from") =>
                    call[c].result = from(repr, t.members, call[c].member, 1)

C5_Witness ==
  /\ macro = "numeric_enum_ident"
  /\ phase = "compiled"
  /\ Len(members) = 2
  /\ \E c, d \in Callers :
        /\ Done(c, "try_from") /\ call[c].result.tag = "Ok"
        /\ Done(d, "from")

\* The same body with the comma after the last member added or removed.
TrailingTwin(toks) ==
  IF toks # <<>> /\ toks[Len(toks)] = Comma
  THEN SubSeq(toks, 1, Len(toks) - 1)
  ELSE Append(toks, Comma)

\* C6: trailing separator equivalence.  When a body has matched, the same
\* body with the trailing comma added (or removed) matches too and binds the
\* same member list, is accepted or rejected alike, and every finished call
\* returned what the conversions of the other declaration return.
C6_TrailingComma ==
  Matched =>
     LET t == MatchMembers(macro, TrailingTwin(body))
     IN  /\ t.ok
         /\ t.members = members
         /\ Checked =>
              (phase = "compiled") = RustcAccepts(macro, repr, t.members)
         /\ \A c \in Callers :
               /\ Done(c, "try_from") =>
                    call[c].result = try_from(repr, t.members, call[c].value, 1)
               /\ Done(c, "from") =>
                    call[c].result = from(repr, t.members, call[c].member, 1)

C6_Witness ==
  /\ phase = "compiled"
  /\ Len(members) = 2
  /\ body[Len(body)] = Comma
  /\ \E c, d \in Callers : Done(c, "try_from") /\ Done(d, "from")

\* C7: non-empty member list.  No declaration with zero members compiles:
\* it is rejected, and every conversion that is ever called belongs to an
\* enum with at least one member.
C7_NonEmpty ==
  /\ phase = "compiled" => Len(members) >= 1
  /\ (Checked /\ Len(members) = 0) => phase = "rejected"
  /\ \A c \in Callers : call[c].pc # "idle" => Len(members) >= 1

C7_Witness ==
  /\ phase = "rejected"
  /\ members = <<>>
  /\ body \in {<<>>, <<Comma>>}

\* C8: signed values, no widening or narrowing.  For a signed
\* representation, a member bound to a negative value v converts to exactly
\* v and try_from(v) returns that member; every number a conversion takes or
\* returns lies in the representation's range, and an Err carries its input.
C8_Signed ==
  /\ (Signed(repr) /\ phase = "compiled") =>
        \A i \in 1..Len(members) :
           LET v == RawValue(members[i].constant)
           IN  v < 0 =>
                 /\ \A c \in Callers :
                       (Done(c, "from") /\ call[c].member = members[i].enum)
                       => call[c].result = Num(v)
                 /\ \A d \in Callers :
                       (Done(d, "try_from") /\ call[d].value = v)
                       => call[d].result = Ok(members[i].enum)
  /\ \A c \in Callers :
        call[c].pc = "done" =>
           /\ InRange(call[c].value, repr)
           /\ InRange(call[c].result.n, repr)
           /\ call[c].result.tag = "Num" =>
                 call[c].result.n \in DeclaredValues
           /\ call[c].result.tag = "Err" => call[c].result.n = call[c].value

C8_Witness ==
  /\ macro = "numeric_enum"
  /\ repr = "i16"
  /\ members = <<[enum |-> "Zero", constant |-> Lit(0)],
                 [enum |-> "Lol", constant |-> Lit(-1)]>>
  /\ \E c, d \in Callers :
        /\ Done(c, "from") /\ call[c].member = "Lol" /\ call[c].result = Num(-1)
        /\ Done(d, "try_from") /\ call[d].value = -1 /\ call[d].result = Ok("Lol")

\* C9: purity under concurrency.  In every interleaving of the callers, a
\* finished call returned what the conversion returns when run alone on the
\* same argument, and a call in progress is at a point from which it still
\* returns that result.
C9_Purity ==
  \A c \in Callers :
     /\ Done(c, "try_from") =>
          call[c].result = try_from(repr, members, call[c].value, 1)
     /\ Done(c, "from") =>
          call[c].result = from(repr, members, call[c].member, 1)
     /\ Running(c, "try_from") =>
          try_from(repr, members, call[c].value, call[c].arm)
            = try_from(repr, members, call[c].value, 1)
     /\ Running(c, "from") =>
          from(repr, members, call[c].member, call[c].arm)
            = from(repr, members, call[c].member, 1)

C9_Witness ==
  \E c, d \in Callers :
     /\ c # d
     /\ Running(c, "try_from") /\ call[c].arm = 2
     /\ Running(d, "try_from") /\ call[d].arm = 2
     /\ call[c].value # call[d].value

\* C10: success soundness.  A finished try_from(x) that returned Ok(m) has x
\* as the number of m, and try_from returns Ok exactly for the inputs that
\* are declared values.
C10_SuccessSound ==
  \A d \in Callers :
     Done(d, "try_from") =>
        /\ call[d].result.tag \in {"Ok", "Err"}
        /\ call[d].result.tag = "Ok" =>
              from(repr, members, call[d].result.m, 1) = Num(call[d].value)
        /\ (call[d].result.tag = "Ok") = (call[d].value \in DeclaredValues)

C10_Witness ==
  /\ Len(members) = 2
  /\ \E c, d \in Callers :
        /\ Done(c, "try_from") /\ call[c].result = Ok(members[2].enum)
        /\ Done(d, "try_from") /\ call[d].result.tag = "Err"
====
